---------------------------- MODULE Spec2Model ----------------------------
(***************************************************************************)
(* pantone-tcx: the nearest Pantone TCX colour of a hex colour (CIE76      *)
(* Delta-E in Lab space) and the catalog colours similar to it (Euclidean  *)
(* distance in RGB space).                                                 *)
(*                                                                         *)
(* Representation of JavaScript values:                                    *)
(*   - a string is a sequence of one-character strings; names and codes,   *)
(*     which are only copied, stay strings;                                *)
(*   - a real number is fixed-point, an integer count of 1/SCALE; the Lab  *)
(*     coordinates are kept in 1/LABUNIT;                                  *)
(*   - NaN and Infinity are the two integers NaN and Infinity, outside the *)
(*     range of every other number of the model, and the operations on     *)
(*     numbers treat them as IEEE-754 does;                                *)
(*   - Math.sqrt(n) is represented exactly, by its radicand n: sqrt is     *)
(*     strictly increasing, so a < b, a <= b and the sign of a - b on two  *)
(*     square roots are decided on the radicands;                          *)
(*   - an operation that may throw yields a record whose kind is "throw"   *)
(*     or "return".                                                        *)
(* A local constant of the source that is used more than once is the       *)
(* parameter of an auxiliary operator here.                                *)
(***************************************************************************)
EXTENDS Integers, Sequences, FiniteSets, TLC

NaN == -2000000000
Infinity == 2000000000
SCALE == 10000
LABUNIT == 100

IsNaN(x) == x = NaN

Throw(msg) == [kind |-> "throw", message |-> msg]
Return(v) == [kind |-> "return", value |-> v]

\* A function written out as its table of values, so that it is evaluated once.
Tabulate(f) == f @@ <<>>

(***************************************************************************)
(* Strings and parseInt                                                    *)
(***************************************************************************)
Str0 == <<>>

LowerDigits == <<"0","1","2","3","4","5","6","7","8","9","a","b","c","d","e","f">>
UpperDigits == <<"0","1","2","3","4","5","6","7","8","9","A","B","C","D","E","F">>

\* The value of character c as a digit; 36 when c is no digit of radix 10 or 16.
DigitValue(c) ==
  IF \E i \in 1..16 : LowerDigits[i] = c
    THEN (CHOOSE i \in 1..16 : LowerDigits[i] = c) - 1
    ELSE IF \E i \in 1..16 : UpperDigits[i] = c
      THEN (CHOOSE i \in 1..16 : UpperDigits[i] = c) - 1
      ELSE 36

IsWhiteSpace(c) == c \in {" ", "\t", "\n"}

RECURSIVE TrimStart(_)
TrimStart(s) ==
  IF s # Str0 /\ IsWhiteSpace(Head(s)) THEN TrimStart(Tail(s)) ELSE s

\* Length of the longest prefix of s made of digits of radix R.
RECURSIVE DigitPrefixLen(_, _)
DigitPrefixLen(s, R) ==
  IF s # Str0 /\ DigitValue(Head(s)) < R THEN 1 + DigitPrefixLen(Tail(s), R) ELSE 0

RECURSIVE DigitsValue(_, _)
DigitsValue(s, R) ==
  IF s = Str0 THEN 0
  ELSE DigitsValue(SubSeq(s, 1, Len(s) - 1), R) * R + DigitValue(s[Len(s)])

\* parseInt, last steps: the n leading digits of s in radix R; NaN if none.
ParseDigits(s, R, n, neg) ==
  IF n = 0 THEN NaN
  ELSE IF neg THEN -DigitsValue(SubSeq(s, 1, n), R)
  ELSE DigitsValue(SubSeq(s, 1, n), R)

ParseInRadix(s, R, neg) == ParseDigits(s, R, DigitPrefixLen(s, R), neg)

\* parseInt, the "0x" prefix: it is stripped when the radix is absent or 16.
ParseUnsigned(s, radix, neg) ==
  IF radix \in {0, 16} /\ Len(s) >= 2 /\ s[1] = "0" /\ s[2] \in {"x", "X"}
    THEN ParseInRadix(SubSeq(s, 3, Len(s)), 16, neg)
    ELSE ParseInRadix(s, IF radix = 0 THEN 10 ELSE radix, neg)

\* parseInt, the sign.
ParseSigned(s, radix) ==
  IF s # Str0 /\ Head(s) \in {"+", "-"}
    THEN ParseUnsigned(Tail(s), radix, Head(s) = "-")
    ELSE ParseUnsigned(s, radix, FALSE)

\* parseInt(string, radix) of ECMAScript; radix 0 stands for an absent radix.
parseInt(string, radix) == ParseSigned(TrimStart(string), radix)

(***************************************************************************)
(* Numbers passed as arguments.  A finite non-zero number is               *)
(* [neg, digits, n]: the decimal digits of its significand (no leading or  *)
(* trailing zero) and the position n of the decimal point, the value being *)
(* 0.d1d2...dk * 10^n.  Zero, NaN and Infinity are named.                  *)
(***************************************************************************)
Num(neg, digits, n) == [kind |-> "finite", neg |-> neg, digits |-> digits, n |-> n]
NumZero == [kind |-> "zero", neg |-> FALSE, digits |-> <<"0">>, n |-> 1]
NumInfinity == [kind |-> "infinity", neg |-> FALSE, digits |-> Str0, n |-> 0]
NumNaN == [kind |-> "nan", neg |-> FALSE, digits |-> Str0, n |-> 0]

RECURSIVE Zeros(_)
Zeros(k) == IF k <= 0 THEN Str0 ELSE <<"0">> \o Zeros(k - 1)

RECURSIVE DecimalDigits(_)
DecimalDigits(i) ==
  IF i < 10 THEN <<LowerDigits[i + 1]>>
  ELSE DecimalDigits(i \div 10) \o <<LowerDigits[(i % 10) + 1]>>

\* Number::toString of a finite non-zero number with k digits and point at n.
FiniteToString(digits, k, n) ==
  IF k <= n /\ n <= 21 THEN digits \o Zeros(n - k)
  ELSE IF 0 < n /\ n <= 21
    THEN SubSeq(digits, 1, n) \o <<".">> \o SubSeq(digits, n + 1, k)
  ELSE IF -6 < n /\ n <= 0 THEN <<"0", ".">> \o Zeros(-n) \o digits
  ELSE (IF k = 1 THEN digits ELSE <<Head(digits), ".">> \o Tail(digits))
       \o <<"e", (IF n - 1 < 0 THEN "-" ELSE "+")>>
       \o DecimalDigits(IF n - 1 < 0 THEN 1 - n ELSE n - 1)

\* Number::toString(x) of ECMAScript, radix 10.
NumberToString(x) ==
  IF x.kind = "nan" THEN <<"N","a","N">>
  ELSE IF x.kind = "zero" THEN <<"0">>
  ELSE (IF x.neg THEN <<"-">> ELSE Str0)
       \o (IF x.kind = "infinity" THEN <<"I","n","f","i","n","i","t","y">>
           ELSE FiniteToString(x.digits, Len(x.digits), x.n))

\* An argument of type string | number | undefined.
StringArg(chars) == [type |-> "string", chars |-> chars, num |-> NumNaN]
NumberArg(num) == [type |-> "number", chars |-> Str0, num |-> num]
Undefined == [type |-> "undefined", chars |-> Str0, num |-> NumNaN]

\* ToString(argument), the first step of parseInt(argument).
ArgToString(arg) ==
  IF arg.type = "string" THEN arg.chars
  ELSE IF arg.type = "number" THEN NumberToString(arg.num)
  ELSE <<"u","n","d","e","f","i","n","e","d">>

(***************************************************************************)
(* utils.js: hexRgb                                                        *)
(***************************************************************************)
\* hex.replace(/^#/, "")
StripHash(hex) == IF hex # Str0 /\ Head(hex) = "#" THEN Tail(hex) ELSE hex

\* cleanedHex.split("").map((c) => c + c).join("")
RECURSIVE DoubleChars(_)
DoubleChars(s) ==
  IF s = Str0 THEN Str0 ELSE <<Head(s), Head(s)>> \o DoubleChars(Tail(s))

\* isShort ? ... : cleanedHex
ExpandCleaned(cleanedHex) ==
  IF Len(cleanedHex) = 3 THEN DoubleChars(cleanedHex) ELSE cleanedHex

ExpandHex(hex) == ExpandCleaned(StripHash(hex))

\* if (expandedHex.length !== 6) throw ...; return { r, g, b }
RgbOfExpanded(expandedHex) ==
  IF Len(expandedHex) # 6 THEN Throw("Invalid hex format")
  ELSE Return([r |-> parseInt(SubSeq(expandedHex, 1, 2), 16),
               g |-> parseInt(SubSeq(expandedHex, 3, 4), 16),
               b |-> parseInt(SubSeq(expandedHex, 5, 6), 16)])

hexRgb(hex) == RgbOfExpanded(ExpandHex(hex))

(***************************************************************************)
(* Arithmetic on numbers                                                   *)
(***************************************************************************)
\* a < b and a <= b of JavaScript: false when either side is NaN.
Lt(a, b) == ~IsNaN(a) /\ ~IsNaN(b) /\ a < b
Leq(a, b) == ~IsNaN(a) /\ ~IsNaN(b) /\ a <= b

\* Product of two fixed-point numbers.
FixMul(a, b) == (a * b) \div SCALE

\* Product of a fixed-point number and the constant c7 / 10^7.
MulCoef(a, c7) ==
  (a * (c7 \div 1000)) \div 10000 + (a * (c7 % 1000)) \div 10000000

Pow3(a) == FixMul(FixMul(a, a), a)
Pow5(a) == FixMul(FixMul(Pow3(a), a), a)

\* The largest a in lo..hi with a^e <= x (e is 3 or 5), given lo^e <= x.
RECURSIVE RootSearch(_, _, _, _)
RootSearch(e, x, lo, hi) ==
  IF lo >= hi THEN lo
  ELSE IF (IF e = 3 THEN Pow3((lo + hi + 1) \div 2)
                    ELSE Pow5((lo + hi + 1) \div 2)) <= x
    THEN RootSearch(e, x, (lo + hi + 1) \div 2, hi)
    ELSE RootSearch(e, x, lo, (lo + hi + 1) \div 2 - 1)

\* x^2.4 for 0 <= x <= 1, as x^2 * (x^2)^(1/5), and the cube root of x.
Pow24OfSquare(x2) == FixMul(x2, RootSearch(5, x2, 0, SCALE))
Pow24(x) == Pow24OfSquare(FixMul(x, x))
Cbrt(x) == RootSearch(3, x, 0, 2 * SCALE)

\* Both are tabulated over the arguments the conversion of an 8-bit colour
\* can give them; other arguments are computed.
Pow24Table == Tabulate([x \in 0..SCALE |-> Pow24(x)])
CbrtTable == Tabulate([x \in 0..(SCALE + SCALE \div 10) |-> Cbrt(x)])

\* Math.pow(x, 2.4)
MathPow24(x) == IF x \in DOMAIN Pow24Table THEN Pow24Table[x] ELSE Pow24(x)

\* Math.pow(x, 1 / 3)
MathCbrt(x) == IF x \in DOMAIN CbrtTable THEN CbrtTable[x] ELSE Cbrt(x)

(***************************************************************************)
(* utils.js: rgbToXyz, xyzToLab, rgbToLab, deltaE, colorDistance           *)
(***************************************************************************)
\* normalize = (value) => value / 255
normalizeRgb(value) == IF IsNaN(value) THEN NaN ELSE (value * SCALE) \div 255

\* value > 0.04045 ? Math.pow((value + 0.055) / 1.055, 2.4) : value / 12.92
gammaCorrect(value) ==
  IF IsNaN(value) THEN NaN
  ELSE IF value * 100000 > 4045 * SCALE
    THEN MathPow24(((value + (55 * SCALE) \div 1000) * 1000) \div 1055)
    ELSE (value * 100) \div 1292

\* x, y, z of rgbToXyz, from the gamma-corrected channels
XyzOfLinear(rNorm, gNorm, bNorm) ==
  IF IsNaN(rNorm) \/ IsNaN(gNorm) \/ IsNaN(bNorm)
    THEN [x |-> NaN, y |-> NaN, z |-> NaN]
    ELSE [x |-> 100 * (MulCoef(rNorm, 4124564) + MulCoef(gNorm, 3575761)
                       + MulCoef(bNorm, 1804375)),
          y |-> 100 * (MulCoef(rNorm, 2126729) + MulCoef(gNorm, 7151522)
                       + MulCoef(bNorm, 721750)),
          z |-> 100 * (MulCoef(rNorm, 193339) + MulCoef(gNorm, 1191920)
                       + MulCoef(bNorm, 9503041))]

rgbToXyz(rgb) ==
  XyzOfLinear(gammaCorrect(normalizeRgb(rgb.r)),
              gammaCorrect(normalizeRgb(rgb.g)),
              gammaCorrect(normalizeRgb(rgb.b)))

\* The D65 reference white, in thousandths.
refX == 95047
refY == 100000
refZ == 108883

\* normalize = (value, ref) => value / ref
normalizeXyz(value, ref) == IF IsNaN(value) THEN NaN ELSE (value * 1000) \div ref

\* value > 0.008856 ? Math.pow(value, 1 / 3) : (value * 903.3 + 16) / 116
labTransform(value) ==
  IF IsNaN(value) THEN NaN
  ELSE IF value * 100 > 8856 * (SCALE \div 10000)
    THEN MathCbrt(value)
    ELSE ((value * 9033) \div 10 + 16 * SCALE) \div 116

\* l, a, b of xyzToLab, from the transformed coordinates
LabOfTransformed(xNorm, yNorm, zNorm) ==
  IF IsNaN(xNorm) \/ IsNaN(yNorm) \/ IsNaN(zNorm)
    THEN [l |-> NaN, a |-> NaN, b |-> NaN]
    ELSE [l |-> (116 * yNorm - 16 * SCALE) \div (SCALE \div LABUNIT),
          a |-> (500 * (xNorm - yNorm)) \div (SCALE \div LABUNIT),
          b |-> (200 * (yNorm - zNorm)) \div (SCALE \div LABUNIT)]

xyzToLab(xyz) ==
  LabOfTransformed(labTransform(normalizeXyz(xyz.x, refX)),
                   labTransform(normalizeXyz(xyz.y, refY)),
                   labTransform(normalizeXyz(xyz.z, refZ)))

rgbToLab(rgb) == xyzToLab(rgbToXyz(rgb))

SumOfSquares(x, y, z) == x * x + y * y + z * z

\* Math.sqrt(lDiff * lDiff + aDiff * aDiff + bDiff * bDiff), by its radicand
deltaE(lab1, lab2) ==
  IF IsNaN(lab1.l) \/ IsNaN(lab1.a) \/ IsNaN(lab1.b)
     \/ IsNaN(lab2.l) \/ IsNaN(lab2.a) \/ IsNaN(lab2.b)
    THEN NaN
    ELSE SumOfSquares(lab1.l - lab2.l, lab1.a - lab2.a, lab1.b - lab2.b)

\* Math.sqrt(rDiff * rDiff + gDiff * gDiff + bDiff * bDiff), by its radicand
colorDistance(color1, color2) ==
  IF IsNaN(color1.r) \/ IsNaN(color1.g) \/ IsNaN(color1.b)
     \/ IsNaN(color2.r) \/ IsNaN(color2.g) \/ IsNaN(color2.b)
    THEN NaN
    ELSE SumOfSquares(color1.r - color2.r, color1.g - color2.g,
                      color1.b - color2.b)

\* Math.sqrt(radicand) <= n for a number n; no radicand of the model reaches
\* 1000 * 1000.
SqrtLeq(radicand, n) ==
  ~IsNaN(radicand) /\ ~IsNaN(n) /\ n >= 0 /\ (n >= 1000 \/ radicand <= n * n)

(***************************************************************************)
(* pantone-tcx.js: getNearestPantone, getNearestPantoneName,               *)
(* getNearestPantoneTcx.  The outcome of a call is                         *)
(* [kind, value, message, labCalls]: what it returned or the message of    *)
(* the error it threw, and the number of calls of rgbToLab it made.        *)
(***************************************************************************)
NoValue == <<>>
Returned(v, n) == [kind |-> "return", value |-> v, message |-> "", labCalls |-> n]
Thrown(msg, n) == [kind |-> "throw", value |-> NoValue, message |-> msg, labCalls |-> n]
NoCall == [kind |-> "none", value |-> NoValue, message |-> "", labCalls |-> 0]

\* let closestColor = null; let closestDistance = Infinity; closestColor is
\* the index of the entry in the catalog, 0 for null.
InitialScan ==
  [closestColor |-> 0, closestDistance |-> Infinity, thrown |-> "", labCalls |-> 1]

\* if (distance < closestDistance), in each of the three functions
CloserOrEqual(distance, closestDistance) == Leq(distance, closestDistance)
Closer(distance, closestDistance) == Lt(distance, closestDistance)
NameCloserOrEqual(distance, closestDistance) == Leq(distance, closestDistance)
NameCloser(distance, closestDistance) == Lt(distance, closestDistance)
TcxCloser(distance, closestDistance) == Lt(distance, closestDistance)

CloserIn(fn, distance, closestDistance) ==
  IF fn = "getNearestPantone" THEN Closer(distance, closestDistance)
  ELSE IF fn = "getNearestPantoneName" THEN NameCloser(distance, closestDistance)
  ELSE TcxCloser(distance, closestDistance)

\* { closestDistance = distance; closestColor = pantone; }
RetainWithoutDistance(fn, acc, i, distance) ==
  IF CloserIn(fn, distance, acc.closestDistance)
    THEN [acc EXCEPT !.closestColor = i, !.labCalls = @ + 1]
    ELSE [acc EXCEPT !.labCalls = @ + 1]
Retain(fn, acc, i, distance) ==
  IF CloserIn(fn, distance, acc.closestDistance)
    THEN [acc EXCEPT !.closestColor = i, !.closestDistance = distance,
                     !.labCalls = @ + 1]
    ELSE [acc EXCEPT !.labCalls = @ + 1]

\* for (const pantone of pantoneColors) { ... }
RECURSIVE Scan(_, _, _, _, _)
RECURSIVE ScanStep(_, _, _, _, _, _)
ScanStep(fn, catalog, inputLab, i, acc, pantoneRGB) ==
  IF pantoneRGB.kind = "throw" THEN [acc EXCEPT !.thrown = pantoneRGB.message]
  ELSE Scan(fn, catalog, inputLab, i + 1,
            Retain(fn, acc, i, deltaE(inputLab, rgbToLab(pantoneRGB.value))))

Scan(fn, catalog, inputLab, i, acc) ==
  IF i > Len(catalog) THEN acc
  ELSE ScanStep(fn, catalog, inputLab, i, acc, hexRgb(catalog[i].hex))

\* return closestColor; return closestColor.name; return closestColor.tcx
Projected(fn, color) ==
  IF fn = "getNearestPantone" THEN color
  ELSE IF fn = "getNearestPantoneName" THEN color.name
  ELSE color.tcx

\* if (!closestColor) throw new Error("No closest Pantone color found.")
ScanOutcome(fn, catalog, scan) ==
  IF scan.thrown # "" THEN Thrown(scan.thrown, scan.labCalls)
  ELSE IF scan.closestColor = 0
    THEN Thrown("No closest Pantone color found.", scan.labCalls)
    ELSE Returned(Projected(fn, catalog[scan.closestColor]), scan.labCalls)

LookupOfRgb(fn, catalog, inputRGB) ==
  IF inputRGB.kind = "throw" THEN Thrown(inputRGB.message, 0)
  ELSE ScanOutcome(fn, catalog,
                   Scan(fn, catalog, rgbToLab(inputRGB.value), 1, InitialScan))

Lookup(fn, catalog, inputHex) == LookupOfRgb(fn, catalog, hexRgb(inputHex))

getNearestPantone(catalog, inputHex) ==
  Lookup("getNearestPantone", catalog, inputHex)
getNearestPantoneName(catalog, inputHex) ==
  Lookup("getNearestPantoneName", catalog, inputHex)
getNearestPantoneTcx(catalog, inputHex) ==
  Lookup("getNearestPantoneTcx", catalog, inputHex)

(***************************************************************************)
(* pantone-tcx.js: getSimilarColors.  Arrays live in a heap, a sequence of *)
(* arrays; the catalog is the array at CatalogRef, .map and .filter        *)
(* allocate a new array, .sort sorts an array in place.  An array value is *)
(* [heap, ref]: the heap and the position of the array in it.              *)
(***************************************************************************)
CatalogRef == 1

Alloc(heap, array) == [heap |-> Append(heap, array), ref |-> Len(heap) + 1]

\* maxDistance = 64
DefaultMaxDistance == NumberArg(Num(FALSE, <<"6", "4">>, 2))
MaxDistanceOrDefault(maxDistance) ==
  IF maxDistance.type = "undefined" THEN DefaultMaxDistance ELSE maxDistance

\* parseInt(maxDistance)
ParsedMaxDistance(maxDistance) == parseInt(ArgToString(maxDistance), 0)

\* ({ ...color, distance: colorDistance(targetRGB, hexRgb(color.hex)) })
WithDistance(color, targetRGB) ==
  [f \in DOMAIN color \cup {"distance"} |->
     IF f = "distance" THEN colorDistance(targetRGB, hexRgb(color.hex).value)
     ELSE color[f]]

\* pantoneColors.map((color) => ({ ...color, distance: ... }))
MapDistanceInPlace(heap, targetRGB) ==
  [heap |-> [heap EXCEPT ![CatalogRef] =
               [i \in 1..Len(heap[CatalogRef]) |->
                  WithDistance(heap[CatalogRef][i], targetRGB)]],
   ref |-> CatalogRef]
MapDistance(heap, targetRGB) ==
  Alloc(heap, [i \in 1..Len(heap[CatalogRef]) |->
                 WithDistance(heap[CatalogRef][i], targetRGB)])

\* color.distance <= parseInt(maxDistance) && color.hex !== nearest.hex
KeepsWithoutHexTest(color, nearest, maxDistance) ==
  SqrtLeq(color.distance, ParsedMaxDistance(maxDistance))
Keeps(color, nearest, maxDistance) ==
  /\ SqrtLeq(color.distance, ParsedMaxDistance(maxDistance))
  /\ color.hex # nearest.hex

\* .filter((color) => ...)
FilterSimilar(array, nearest, maxDistance) ==
  Alloc(array.heap,
        SelectSeq(array.heap[array.ref],
                  LAMBDA color : Keeps(color, nearest, maxDistance)))

\* (a, b) => a.distance - b.distance, by its sign
CompareDescending(a, b) == b.distance - a.distance
CompareDistance(a, b) == a.distance - b.distance

\* Array.prototype.sort is stable: x goes before the first element that the
\* comparator puts after it.
RECURSIVE InsertSorted(_, _)
InsertSorted(sorted, x) ==
  IF sorted = <<>> THEN <<x>>
  ELSE IF CompareDistance(Head(sorted), x) > 0 THEN <<x>> \o sorted
  ELSE <<Head(sorted)>> \o InsertSorted(Tail(sorted), x)

RECURSIVE SortedPrefix(_, _)
SortedPrefix(elements, n) ==
  IF n = 0 THEN <<>>
  ELSE InsertSorted(SortedPrefix(elements, n - 1), elements[n])

\* .sort((a, b) => a.distance - b.distance)
SortByDistance(array) ==
  [heap |-> [array.heap EXCEPT ![array.ref] = SortedPrefix(@, Len(@))],
   ref |-> array.ref]

\* ({ distance, ...color }) => color
WithoutDistance(color) == [f \in DOMAIN color \ {"distance"} |-> color[f]]

\* .map(({ distance, ...color }) => color)
MapWithoutDistance(array) ==
  Alloc(array.heap,
        [i \in 1..Len(array.heap[array.ref]) |->
           WithoutDistance(array.heap[array.ref][i])])

\* The outcome of getSimilarColors with the heap it leaves:
\* [kind, value, message, labCalls, heap].
SimilarThrown(msg, n, heap) ==
  [kind |-> "throw", value |-> NoValue, message |-> msg, labCalls |-> n,
   heap |-> heap]

\* return [nearest, ...similarColors]
SimilarReturned(found, similarColors) ==
  [kind |-> "return",
   value |-> <<found.value>> \o similarColors.heap[similarColors.ref],
   message |-> "", labCalls |-> found.labCalls, heap |-> similarColors.heap]

\* const similarColors = pantoneColors.map(...).filter(...).sort(...).map(...)
SimilarToTarget(heap, found, targetRGB, maxDistance) ==
  IF targetRGB.kind = "throw"
    THEN SimilarThrown(targetRGB.message, found.labCalls, heap)
    ELSE SimilarReturned(found,
           MapWithoutDistance(
             SortByDistance(
               FilterSimilar(MapDistance(heap, targetRGB.value),
                             found.value, maxDistance))))

\* const targetRGB = hexRgb(nearest.hex)
SimilarToNearest(heap, found, maxDistance) ==
  IF found.kind = "throw"
    THEN SimilarThrown(found.message, found.labCalls, heap)
    ELSE SimilarToTarget(heap, found, hexRgb(found.value.hex), maxDistance)

getSimilarColors(catalog, inputHex, maxDistanceArg) ==
  SimilarToNearest(<<catalog>>, getNearestPantone(catalog, inputHex),
                   MaxDistanceOrDefault(maxDistanceArg))

(***************************************************************************)
(* The catalog, the inputs of a caller, and the module as a state machine  *)
(***************************************************************************)
MaxCatalog == 3

\* Catalog entries {name, tcx, hex}.  Two share a hex value.
Entries ==
  { [name |-> "Brilliant White", tcx |-> "11-4001", hex |-> <<"#","F","F","F","F","F","F">>],
    [name |-> "Snow White", tcx |-> "11-0602", hex |-> <<"#","F","F","F","F","F","F">>],
    [name |-> "Lucent White", tcx |-> "11-0700", hex |-> <<"#","F","C","F","D","F","F">>],
    [name |-> "Jet Black", tcx |-> "19-0303", hex |-> <<"#","0","0","0","0","0","0">>] }

Catalogs == UNION { [1..n -> Entries] : n \in 0..MaxCatalog }

\* Strings a caller passes as inputHex.
HexInputs ==
  { <<"#","F","F","F","F","F","F">>, <<"f","f","f">>,
    <<"#","0","0","0","0","0","0">>,
    <<"#","f","c","f","d","f","f">>,
    Str0, <<"#","1","2">>, <<"r","e","d">>, <<"1","2","3","4","5","g">> }

\* Values a caller passes as maxDistance: 0, 3.7, 4, 5e-7, 441.67, 442,
\* Infinity, "12", "4.9", and none.
MaxDistances ==
  { NumberArg(NumZero),
    NumberArg(Num(FALSE, <<"3","7">>, 1)),
    NumberArg(Num(FALSE, <<"4">>, 1)),
    NumberArg(Num(FALSE, <<"5">>, -6)),
    NumberArg(Num(FALSE, <<"4","4","1","6","7">>, 3)),
    NumberArg(Num(FALSE, <<"4","4","2">>, 3)),
    NumberArg(NumInfinity),
    StringArg(<<"1","2">>),
    StringArg(<<"4",".","9">>),
    Undefined }

\* The four exported functions, tabulated over the catalogs and inputs of the
\* model; on any other argument they are computed.
NearestTable ==
  Tabulate([c \in Catalogs |->
    Tabulate([h \in HexInputs |-> getNearestPantone(c, h)])])
NameTable ==
  Tabulate([c \in Catalogs |->
    Tabulate([h \in HexInputs |-> getNearestPantoneName(c, h)])])
TcxTable ==
  Tabulate([c \in Catalogs |->
    Tabulate([h \in HexInputs |-> getNearestPantoneTcx(c, h)])])
SimilarTable ==
  Tabulate([c \in Catalogs |->
    Tabulate([h \in HexInputs |->
      Tabulate([m \in MaxDistances |-> getSimilarColors(c, h, m)])])])

Tabulated(c, h) == c \in Catalogs /\ h \in HexInputs

NearestPantone(c, h) ==
  IF Tabulated(c, h) THEN NearestTable[c][h] ELSE getNearestPantone(c, h)
NearestPantoneName(c, h) ==
  IF Tabulated(c, h) THEN NameTable[c][h] ELSE getNearestPantoneName(c, h)
NearestPantoneTcx(c, h) ==
  IF Tabulated(c, h) THEN TcxTable[c][h] ELSE getNearestPantoneTcx(c, h)
SimilarColors(c, h, m) ==
  IF Tabulated(c, h) /\ m \in MaxDistances
    THEN SimilarTable[c][h][m] ELSE getSimilarColors(c, h, m)

VARIABLES
  pantoneColors,  \* the catalog array
  argHex,         \* the hex string the caller passes as inputHex
  module,         \* "unloaded", "loaded", or "failed" when its evaluation threw
  console,        \* what console.log has written
  out             \* the latest call of an exported function and its outcome

vars == <<pantoneColors, argHex, module, console, out>>

Called(op, r, maxDistance) ==
  [op |-> op, kind |-> r.kind, value |-> r.value, message |-> r.message,
   labCalls |-> r.labCalls, maxDistance |-> maxDistance]

Init ==
  /\ pantoneColors \in Catalogs
  /\ argHex \in HexInputs
  /\ module = "unloaded"
  /\ console = <<>>
  /\ out = Called("none", NoCall, Undefined)

\* Evaluation of pantone-tcx.js: console.log(getSimilarColors("FF0000", "12"))
Load ==
  /\ module = "unloaded"
  /\ LET r == getSimilarColors(pantoneColors, <<"F","F","0","0","0","0">>,
                               StringArg(<<"1","2">>))
     IN  /\ pantoneColors' = r.heap[CatalogRef]
         /\ module' = IF r.kind = "throw" THEN "failed" ELSE "loaded"
         /\ console' = IF r.kind = "throw" THEN console ELSE Append(console, r.value)
  /\ UNCHANGED <<argHex, out>>

CallGetNearestPantone ==
  /\ module = "loaded"
  /\ out' = Called("getNearestPantone",
                   NearestPantone(pantoneColors, argHex), Undefined)
  /\ UNCHANGED <<pantoneColors, argHex, module, console>>

CallGetNearestPantoneName ==
  /\ module = "loaded"
  /\ out' = Called("getNearestPantoneName",
                   NearestPantoneName(pantoneColors, argHex), Undefined)
  /\ UNCHANGED <<pantoneColors, argHex, module, console>>

CallGetNearestPantoneTcx ==
  /\ module = "loaded"
  /\ out' = Called("getNearestPantoneTcx",
                   NearestPantoneTcx(pantoneColors, argHex), Undefined)
  /\ UNCHANGED <<pantoneColors, argHex, module, console>>

CallGetSimilarColors ==
  /\ module = "loaded"
  /\ \E maxDistance \in MaxDistances :
       LET r == SimilarColors(pantoneColors, argHex, maxDistance)
       IN  /\ pantoneColors' = r.heap[CatalogRef]
           /\ out' = Called("getSimilarColors", r, maxDistance)
  /\ UNCHANGED <<argHex, module, console>>

Next ==
  \/ Load
  \/ CallGetNearestPantone
  \/ CallGetNearestPantoneName
  \/ CallGetNearestPantoneTcx
  \/ CallGetSimilarColors

Spec == Init /\ [][Next]_vars

(***************************************************************************)
(* Vocabulary of the properties                                            *)
(***************************************************************************)
\* h, after stripping one optional leading '#' and expanding a 3-character
\* shorthand, is exactly 6 hexadecimal characters.
WellFormedHex(h) ==
  /\ Len(ExpandHex(h)) = 6
  /\ \A i \in 1..6 : DigitValue(ExpandHex(h)[i]) < 16

NoMatchFound == "No closest Pantone color found."
InvalidHexFormat == "Invalid hex format"

\* The Lab colour of a hex string, tabulated over the strings of the model.
KnownHex == HexInputs \cup { e.hex : e \in Entries }
LabOfHexTable ==
  Tabulate([h \in KnownHex |->
    IF hexRgb(h).kind = "return" THEN rgbToLab(hexRgb(h).value)
    ELSE [l |-> NaN, a |-> NaN, b |-> NaN]])
LabOfHex(h) ==
  IF h \in KnownHex THEN LabOfHexTable[h] ELSE rgbToLab(hexRgb(h).value)

\* Delta-E (by its radicand) between two hex colours.
DeltaEOfHex(h1, h2) == deltaE(LabOfHex(h1), LabOfHex(h2))

\* The entry getNearestPantone returns for the caller's input: the anchor.
Anchor == NearestPantone(pantoneColors, argHex).value

\* Raw RGB distance (by its radicand) of catalog entry i to the anchor.
AnchorDistance(i) ==
  colorDistance(hexRgb(Anchor.hex).value, hexRgb(pantoneColors[i].hex).value)

\* result is the anchor followed by the catalog entries at the positions
\* kept, in ascending distance to the anchor, equal distances in catalog
\* order, each with the fields name, tcx and hex only.
AnchorThenSorted(result, kept) ==
  /\ Len(result) = 1 + Cardinality(kept)
  /\ result[1] = Anchor
  /\ \A k \in DOMAIN result : DOMAIN result[k] = {"name", "tcx", "hex"}
  /\ \E idx \in [1..Cardinality(kept) -> kept] :
       /\ \A k, l \in 1..Cardinality(kept) :
            k < l => \/ AnchorDistance(idx[k]) < AnchorDistance(idx[l])
                     \/ /\ AnchorDistance(idx[k]) = AnchorDistance(idx[l])
                        /\ idx[k] < idx[l]
       /\ \A k \in 1..Cardinality(kept) : result[k + 1] = pantoneColors[idx[k]]

\* The integer getSimilarColors compares distances with: parseInt of the
\* threshold's string form, of 64 when the caller passes none.
IntegerThreshold(t) == ParsedMaxDistance(MaxDistanceOrDefault(t))

\* Numbers as real numbers: x <= y for non-negative x and y that are not NaN.
RECURSIVE DigitsLeq(_, _)
DigitsLeq(d1, d2) ==
  IF d1 = Str0 THEN TRUE
  ELSE IF d2 = Str0 THEN FALSE
  ELSE IF DigitValue(Head(d1)) # DigitValue(Head(d2))
    THEN DigitValue(Head(d1)) < DigitValue(Head(d2))
  ELSE DigitsLeq(Tail(d1), Tail(d2))

NumLeq(x, y) ==
  \/ x.kind = "zero"
  \/ y.kind = "infinity"
  \/ /\ x.kind = "finite" /\ y.kind = "finite"
     /\ \/ x.n < y.n
        \/ x.n = y.n /\ DigitsLeq(x.digits, y.digits)

RECURSIVE Pow10(_)
Pow10(k) == IF k <= 0 THEN 1 ELSE 10 * Pow10(k - 1)

\* floor(x * x) for a finite x >= 0 below 46340 with at most 5 digits.
SquareFloor(x) ==
  IF x.kind = "zero" THEN 0
  ELSE IF Len(x.digits) <= x.n
    THEN (DigitsValue(x.digits, 10) * Pow10(x.n - Len(x.digits)))
         * (DigitsValue(x.digits, 10) * Pow10(x.n - Len(x.digits)))
  ELSE IF 2 * (Len(x.digits) - x.n) > 9 THEN 0
  ELSE (DigitsValue(x.digits, 10) * DigitsValue(x.digits, 10))
       \div Pow10(2 * (Len(x.digits) - x.n))

\* Math.sqrt(radicand) <= x as real numbers, for the number x >= 0.
SqrtLeqNumber(radicand, x) ==
  x.kind = "infinity" \/ (x.kind # "nan" /\ radicand <= SquareFloor(x))

\* The caller's threshold as a number, 64 when the caller passes none.
IsNumber(t) == MaxDistanceOrDefault(t).type = "number"
NumberOf(t) == MaxDistanceOrDefault(t).num

MaxRgbDistance == Num(FALSE, <<"4","4","1","6","7">>, 3)

SimilarCall == out.op = "getSimilarColors" /\ WellFormedHex(argHex)

(***************************************************************************)
(* Properties                                                              *)
(***************************************************************************)

(* C1: for a well-formed hex input and a non-empty catalog,                *)
(* getNearestPantone returns a catalog entry at minimum Delta-E from the   *)
(* input, and every entry before it in the catalog is strictly farther.    *)
NearestIsEarliestMinimum ==
  (out.op = "getNearestPantone" /\ WellFormedHex(argHex) /\ pantoneColors # <<>>)
  => /\ out.kind = "return"
     /\ \E i \in DOMAIN pantoneColors :
          /\ out.value = pantoneColors[i]
          /\ \A j \in DOMAIN pantoneColors :
               /\ DeltaEOfHex(argHex, pantoneColors[i].hex)
                    <= DeltaEOfHex(argHex, pantoneColors[j].hex)
               /\ j < i => DeltaEOfHex(argHex, pantoneColors[i].hex)
                             < DeltaEOfHex(argHex, pantoneColors[j].hex)

\* getNearestPantone has returned the first of two different entries that
\* are both at the minimum distance.
NearestTieReached ==
  /\ out.op = "getNearestPantone" /\ out.kind = "return"
  /\ WellFormedHex(argHex)
  /\ \E i, j \in DOMAIN pantoneColors :
       /\ i < j
       /\ out.value = pantoneColors[i]
       /\ pantoneColors[j] # pantoneColors[i]
       /\ DeltaEOfHex(argHex, pantoneColors[j].hex)
            = DeltaEOfHex(argHex, pantoneColors[i].hex)

(* C2: for an input that is not well formed, each of the four exported     *)
(* functions throws "Invalid hex format" before any conversion to Lab, and *)
(* returns nothing.                                                        *)
MalformedInputRaisesInvalidHex ==
  (out.op # "none" /\ ~WellFormedHex(argHex))
  => /\ out.kind = "throw"
     /\ out.message = InvalidHexFormat
     /\ out.labCalls = 0

AccessorsProjectNearest ==
  /\ out.op = "getNearestPantoneName"
     => /\ out.kind = NearestPantone(pantoneColors, argHex).kind
        /\ out.message = NearestPantone(pantoneColors, argHex).message
        /\ out.kind = "return" => out.value = Anchor.name
  /\ out.op = "getNearestPantoneTcx"
     => /\ out.kind = NearestPantone(pantoneColors, argHex).kind
        /\ out.message = NearestPantone(pantoneColors, argHex).message
        /\ out.kind = "return" => out.value = Anchor.tcx

\* getNearestPantoneName has returned a name where two entries of different
\* names are both at the minimum distance.
AccessorTieReached ==
  /\ out.op = "getNearestPantoneName" /\ out.kind = "return"
  /\ \E i, j \in DOMAIN pantoneColors :
       /\ i < j
       /\ pantoneColors[i] = Anchor
       /\ pantoneColors[j].name # Anchor.name
       /\ pantoneColors[j].hex = Anchor.hex

(* C5: with an empty catalog and a well-formed input getNearestPantone     *)
(* throws "No closest Pantone color found.", and with a non-empty catalog  *)
(* no input makes it throw that error.                                     *)
NoMatchOnlyOnEmptyCatalog ==
  out.op = "getNearestPantone"
  => /\ (pantoneColors = <<>> /\ WellFormedHex(argHex))
          => (out.kind = "throw" /\ out.message = NoMatchFound)
     /\ pantoneColors # <<>>
          => ~(out.kind = "throw" /\ out.message = NoMatchFound)

SimilarMonotoneInThreshold ==
  (SimilarCall /\ out.kind = "return" /\ IsNumber(out.maxDistance))
  => \A t2 \in MaxDistances :
       (IsNumber(t2) /\ NumLeq(NumberOf(out.maxDistance), NumberOf(t2)))
       => /\ SimilarColors(pantoneColors, argHex, t2).kind = "return"
          /\ SimilarColors(pantoneColors, argHex, t2).value[1] = out.value[1]
          /\ \A k \in DOMAIN out.value :
               \E l \in DOMAIN SimilarColors(pantoneColors, argHex, t2).value :
                 SimilarColors(pantoneColors, argHex, t2).value[l] = out.value[k]

(* C8: when the input is the hex of a catalog entry e and no other entry   *)
(* is at Delta-E zero from e, getNearestPantone returns an entry with that *)
(* hex.                                                                    *)
SelfMatch ==
  (/\ out.op = "getNearestPantone"
   /\ \E i \in DOMAIN pantoneColors :
        /\ pantoneColors[i].hex = argHex
        /\ \A j \in DOMAIN pantoneColors \ {i} :
             DeltaEOfHex(pantoneColors[j].hex, argHex) # 0)
  => (out.kind = "return" /\ out.value.hex = argHex)

\* getNearestPantone has been called with the hex of an entry that is not
\* the first of the catalog and has no other entry at Delta-E zero.
SelfMatchReached ==
  /\ out.op = "getNearestPantone" /\ out.kind = "return"
  /\ \E i \in DOMAIN pantoneColors :
       /\ i > 1
       /\ pantoneColors[i].hex = argHex
       /\ \A j \in DOMAIN pantoneColors \ {i} :
            DeltaEOfHex(pantoneColors[j].hex, argHex) # 0

(* C9: no call of an exported function, whether it returns or throws,      *)
(* changes the catalog: same entries, same order, same fields.             *)
CatalogUnchanged == [][pantoneColors' = pantoneColors]_vars

\* getSimilarColors has annotated, filtered and sorted: it has returned at
\* least two entries after the anchor.
SimilarSortReached ==
  /\ out.op = "getSimilarColors" /\ out.kind = "return"
  /\ Len(out.value) >= 3
  /\ pantoneColors \in Catalogs

(* C10: evaluating the module runs no lookup and writes nothing to the     *)
(* console: as long as the caller has called no exported function, the     *)
(* console is empty.                                                       *)
LoadHasNoSideEffects == out.op = "none" => console = <<>>

=============================================================================
